---- MODULE Spec2Model ----
(***************************************************************************)
(* Model of src/src/changelistener.rs: the registration handle             *)
(* (RegisteredListener), the notification sink                             *)
(* (VirtualDesktopChangeListener) and the crossbeam channel that carries   *)
(* VirtualDesktopEvent values from the sink's callbacks to the consumers.  *)
(*                                                                         *)
(* A callback is not atomic with respect to the other OS threads.  The OS   *)
(* first calls into the sink on one of its threads (Enter); the method's   *)
(* body, whose only access to shared state is its try_send, runs later     *)
(* (the callback's own action, which ends with Return).  The arguments and *)
(* the answers of the external lookups are inputs of the body.             *)
(*                                                                         *)
(* Three specifications share the state.  Spec is the handle-level view:   *)
(* register and the handle's drop are one step each, callbacks run only    *)
(* between them, and the sink's storage and reference count stay out of    *)
(* the picture.  Life is the step-level view of the same code: register    *)
(* and the drop of the handle go statement by statement, the sink's        *)
(* reference count (the co_class object's __refcnt) and its storage are     *)
(* state, the OS takes and drops references of its own and may call into   *)
(* the sink for as long as it has a pointer to it.  Close is the           *)
(* step-level view with the consumers, who keep receiving, and with a     *)
(* caller that may keep a clone of the send-end.                           *)
(***************************************************************************)
EXTENDS Integers, Sequences, FiniteSets, TLC

\* ---------------------------------------------------------------- bounds
MaxHandles == 1      \* calls of RegisteredListener::register
MaxThreads == 2      \* OS threads that deliver notifications
MaxCalls == 2        \* callback invocations in one behaviour
MaxIds == 2          \* distinct DesktopID values (and the longest desktop list)
MaxCap == 2          \* capacity of the bounded channel the caller created
MaxConsumers == 2    \* consumers that clone the receive-end
MaxOsRefs == 1       \* references of its own the OS holds on a sink at a time

Handles == 1..MaxHandles
Threads == 1..MaxThreads
Consumers == 1..MaxConsumers
DesktopIDs == 1..MaxIds
Cookies == 1..(MaxHandles + 1)
HWNDs == {1}

\* ------------------------------------------------------------- constants
\* HRESULT::ok(): the success status, S_OK.
HRESULT_ok == 0
\* The statuses the service's register call may return (negative: failure).
HResults == {-2, -1, 0, 1}
\* HRESULT::failed(): the severity bit is set.
Failed(code) == code < 0
\* std::usize::MAX, the "not found" value of current_virtual_desktop_changed
\* (the largest value of the model's integers).
UsizeMax == 2147483647

\* ---------------------------------------------------- VirtualDesktopEvent
\* (fst, snd: the payload of the variant, -1 where it has none)
NoEvent == [type |-> "none", fst |-> -1, snd |-> -1]
DesktopCreated(index) == [type |-> "DesktopCreated", fst |-> index, snd |-> -1]
DesktopDestroyed(index) == [type |-> "DesktopDestroyed", fst |-> index, snd |-> -1]
DesktopChanged(old_index, new_index) ==
    [type |-> "DesktopChanged", fst |-> old_index, snd |-> new_index]
WindowChanged(hwnd) == [type |-> "WindowChanged", fst |-> hwnd, snd |-> -1]

\* ------------------------------------------------- the state's records
NoHandle == [st |-> "unused", cookie |-> 0, err |-> 0, status |-> 0, how |-> "none"]
NoRes == [ok |-> FALSE, old |-> -1, new |-> -1, same |-> FALSE, total |-> 0]
IdleThread == [pc |-> "idle", sink |-> 0, stamp |-> 0]
NoCallback ==
    [stamp |-> 0, kind |-> "none", res |-> NoRes, ev |-> NoEvent, room |-> FALSE,
     out |-> "none", hr |-> 0]
\* The sink of a register call: its storage (mem), its __refcnt, how often its
\* destructor ran (drops) and how often its storage was reclaimed (frees).
NoSink == [mem |-> "none", refcnt |-> 0, drops |-> 0, frees |-> 0]

\* ------------------------------------------------------------------ state
VARIABLES
    handle,    \* handle[h]: the h-th call of register and the handle it returned
               \* (status: the failure status the service answered, if any;
               \* how: what destroyed the handle)
    unregLog,  \* the cookies passed to service.unregister, in call order
    cap,       \* the capacity of the channel
    queue,     \* the messages in the channel, oldest first
    sent,      \* every message ever enqueued, in enqueue order (history)
    rx,        \* rx[c]: consumer c holds a clone of the receive-end
    joined,    \* joined[c]: Len(sent) when consumer c last cloned the receive-end
    got,       \* got[c]: the messages consumer c received, in order
    thr,       \* thr[t]: the call into a sink that OS thread t is running
    last,      \* the callback that returned last: what it resolved (res), its event
               \* (ev), whether the channel was open and not full when it ran
               \* (room), what became of the send (out), the status returned (hr)
    calls,     \* callback invocations so far
    listener,  \* listener[h]: the sink that the h-th call of register created
    osRefs,    \* osRefs[h]: the references of its own the OS holds on that sink
    tear,      \* tear[h]: how many steps of the handle's drop have run
    svc,       \* the cookies registered with the notification service
    fault,     \* the first fault of the run: a callback ("stale_callback") or a
               \* count operation of the OS ("stale_refcount") on storage that
               \* was given back, a release at count zero ("release_at_zero"),
               \* a panic that left a callback ("panic_escaped")
    extSender, \* the caller of register kept a clone of the send-end
    closedSeen \* closedSeen[c]: consumer c's recv answered that the channel is closed

lifeVars == <<listener, osRefs, tear, svc, fault, extSender, closedSeen>>

vars == <<handle, unregLog, cap, queue, sent, rx, joined, got, thr, last, calls,
          lifeVars>>

Init ==
    /\ handle = [h \in Handles |-> NoHandle]
    /\ unregLog = <<>>
    /\ cap \in 1..MaxCap
    /\ queue = <<>>
    /\ sent = <<>>
    /\ rx = [c \in Consumers |-> FALSE]
    /\ joined = [c \in Consumers |-> 0]
    /\ got = [c \in Consumers |-> <<>>]
    /\ thr = [t \in Threads |-> IdleThread]
    /\ last = NoCallback
    /\ calls = 0
    /\ listener = [h \in Handles |-> NoSink]
    /\ osRefs = [h \in Handles |-> 0]
    /\ tear = [h \in Handles |-> 0]
    /\ svc = {}
    /\ fault = "none"
    /\ extSender = FALSE
    /\ closedSeen = [c \in Consumers |-> FALSE]

\* ------------------------------------------------------------- helpers
\* The desktop lists the OS can hold: no identifier occurs twice.
DesktopLists ==
    {s \in UNION {[1..n -> DesktopIDs] : n \in 0..MaxIds} :
        \A i, j \in DOMAIN s : i # j => s[i] # s[j]}

\* The zero-based position of id in list, or -1.
IndexOf(list, id) ==
    IF \E i \in DOMAIN list : list[i] = id
    THEN (CHOOSE i \in DOMAIN list : list[i] = id) - 1
    ELSE -1

\* ------------------------------------------------ external collaborators
\* get_desktops(): the current list, or an error.
get_desktops(list, ok) ==
    IF ok THEN [ok |-> TRUE, val |-> list] ELSE [ok |-> FALSE, val |-> <<>>]

\* get_index_by_desktop(id): the position of id in the current list, or an error.
get_index_by_desktop(list, ok, id) ==
    IF ok /\ IndexOf(list, id) # -1
    THEN [ok |-> TRUE, val |-> IndexOf(list, id)]
    ELSE [ok |-> FALSE, val |-> -1]

\* ------------------------------------------------------------ the channel
\* The order in which the drop of a RegisteredListener releases what it owns:
\* Drop::drop runs first (the unregister call), then the fields in the order
\* of their declaration (the cookie owns nothing).
DropOrder_SinkFirst == <<"listener", "unregister", "receiver", "service">>

DropOrder == <<"unregister", "listener", "receiver", "service">>

\* The drop of handle h has run the step named item.
Done(h, item) == \E k \in 1..tear[h] : DropOrder[k] = item

\* The call of register, or the handle it returned, holds the receive-end.
HoldsReceiver(h) ==
    \/ handle[h].st \in {"created", "calling", "answered", "registered"}
    \/ handle[h].st = "dropping" /\ ~Done(h, "receiver")

\* The receive-ends alive: one in every live handle, one per consumer clone.
Receivers ==
    Cardinality({h \in Handles : HoldsReceiver(h)})
        + Cardinality({c \in Consumers : rx[c]})

\* The send-ends alive: the one passed to register, which the caller holds
\* until the call and the sink owns from then on, and the caller's own clone.
Senders ==
    Cardinality({h \in Handles : handle[h].st = "unused" \/ listener[h].mem = "live"})
        + (IF extSender THEN 1 ELSE 0)

Channel == [cap |-> cap, queue |-> queue, receivers |-> Receivers]

\* The channel is open and not full.
HasRoom(ch) == ch.receivers > 0 /\ Len(ch.queue) < ch.cap

\* Sender::try_send: never waits; the message is enqueued at the back, or
\* the call fails at once when no receiver is left or the channel is full.
TrySend_Lifo(ch, msg) ==
    IF ch.receivers = 0 THEN [out |-> "closed", queue |-> ch.queue]
    ELSE IF Len(ch.queue) >= ch.cap THEN [out |-> "full", queue |-> ch.queue]
    ELSE [out |-> "sent", queue |-> <<msg>> \o ch.queue]

TrySend_Twice(ch, msg) ==
    IF ch.receivers = 0 THEN [out |-> "closed", queue |-> ch.queue]
    ELSE IF Len(ch.queue) >= ch.cap THEN [out |-> "full", queue |-> ch.queue]
    ELSE [out |-> "sent", queue |-> Append(Append(ch.queue, msg), msg)]

TrySend_Overwrite(ch, msg) ==
    IF ch.receivers = 0 THEN [out |-> "closed", queue |-> ch.queue]
    ELSE IF Len(ch.queue) >= ch.cap
    THEN [out |-> "full", queue |-> Append(Tail(ch.queue), msg)]
    ELSE [out |-> "sent", queue |-> Append(ch.queue, msg)]

TrySend(ch, msg) ==
    IF ch.receivers = 0 THEN [out |-> "closed", queue |-> ch.queue]
    ELSE IF Len(ch.queue) >= ch.cap THEN [out |-> "full", queue |-> ch.queue]
    ELSE [out |-> "sent", queue |-> Append(ch.queue, msg)]

\* --------------------------------------------------- RegisteredListener
\* The cookies the service has handed out.
Issued ==
    {handle[h].cookie :
        h \in {g \in Handles :
                  handle[g].st \in {"answered", "registered", "dropping", "dropped"}}}

\* RegisteredListener::register, from the service's answer (its status res
\* and the cookie it wrote) to what register returns: Err(res), or Ok of a
\* handle that stores the cookie.
RegisterResult_IgnoreStatus(res, cookie) ==
    [st |-> "registered", cookie |-> cookie, err |-> 0]

RegisterResult(res, cookie) ==
    IF Failed(res)
    THEN [st |-> "failed", cookie |-> 0, err |-> res]
    ELSE [st |-> "registered", cookie |-> cookie, err |-> 0]

\* register is called for the next handle; the service answers with any
\* status and, on success, a cookie it has not handed out before.
Register(res, cookie) ==
    \E h \in Handles :
        /\ handle[h].st = "unused"
        /\ \A g \in Handles : g < h => handle[g].st # "unused"
        /\ cookie \notin Issued
        /\ LET r == RegisterResult(res, cookie)
           IN  handle' = [handle EXCEPT ![h] =
                   [st |-> r.st, cookie |-> r.cookie, err |-> r.err,
                    status |-> IF Failed(res) THEN res ELSE 0, how |-> "none"]]
        /\ UNCHANGED <<unregLog, cap, queue, sent, rx, joined, got, thr, last, calls, lifeVars>>

\* RegisteredListener::get_receiver: consumer c clones the receive-end.
get_receiver(c, h) ==
    /\ handle[h].st = "registered"
    /\ ~rx[c]
    /\ rx' = [rx EXCEPT ![c] = TRUE]
    /\ joined' = [joined EXCEPT ![c] = Len(sent)]
    /\ UNCHANGED <<handle, unregLog, cap, queue, sent, got, thr, last, calls, lifeVars>>

\* Drop for RegisteredListener: the cookies it passes to service.unregister.
Drop_Unregister_Skip(hd) == <<>>

Drop_Unregister_Stale(hd) == <<0>>

Drop_Unregister(hd) == <<hd.cookie>>

\* The handle goes out of scope or is dropped by an unwind (how).  The
\* service's unregister returns once no callback of the sink is running.
DropHandle(h, how) ==
    /\ handle[h].st = "registered"
    /\ \A t \in Threads : ~(thr[t].pc = "running" /\ thr[t].sink = h)
    /\ unregLog' = unregLog \o Drop_Unregister(handle[h])
    /\ handle' = [handle EXCEPT ![h].st = "dropped", ![h].how = how]
    /\ UNCHANGED <<cap, queue, sent, rx, joined, got, thr, last, calls, lifeVars>>

\* ------------------------------------------------------------ consumers
\* Receiver::recv / try_recv on a clone: the oldest message leaves the channel.
Recv(c) ==
    /\ rx[c]
    /\ queue # <<>>
    /\ got' = [got EXCEPT ![c] = Append(got[c], Head(queue))]
    /\ queue' = Tail(queue)
    /\ UNCHANGED <<handle, unregLog, cap, sent, rx, joined, thr, last, calls, lifeVars>>

\* A consumer drops its clone.
DropReceiver(c) ==
    /\ rx[c]
    /\ rx' = [rx EXCEPT ![c] = FALSE]
    /\ UNCHANGED <<handle, unregLog, cap, queue, sent, joined, got, thr, last, calls, lifeVars>>

\* ------------------------------------------ VirtualDesktopChangeListener
\* virtual_desktop_created: the event it sends for a lookup result.
CreatedEvent_OffByOne(lookup) ==
    IF lookup.ok THEN DesktopCreated(lookup.val + 1) ELSE NoEvent

CreatedEvent_Always(lookup) == DesktopCreated(IF lookup.ok THEN lookup.val ELSE 0)

CreatedEvent(lookup) ==
    IF lookup.ok THEN DesktopCreated(lookup.val) ELSE NoEvent

\* virtual_desktop_destroyed: the event it sends for a lookup result.
DestroyedEvent(lookup) ==
    IF lookup.ok THEN DesktopDestroyed(lookup.val) ELSE NoEvent

\* view_virtual_desktop_changed: the event it sends.
WindowEvent(hwnd) == WindowChanged(hwnd)

\* The loop of current_virtual_desktop_changed over desktops.iter().enumerate(),
\* from the i-th element on (i counts from 1; the index stored is i - 1).
RECURSIVE ScanDesktops(_, _, _, _, _, _)
ScanDesktops(desktops, i, old_id, new_id, old, new) ==
    IF i > Len(desktops) THEN <<old, new>>
    ELSE IF desktops[i] = old_id
         THEN ScanDesktops(desktops, i + 1, old_id, new_id, i - 1, new)
    ELSE IF desktops[i] = new_id
         THEN ScanDesktops(desktops, i + 1, old_id, new_id, old, i - 1)
    ELSE ScanDesktops(desktops, i + 1, old_id, new_id, old, new)

\* current_virtual_desktop_changed: the event it sends for the result of
\* get_desktops and the two identifiers.
ChangedEvent_Swapped(desktops, old_id, new_id) ==
    IF ~desktops.ok THEN NoEvent
    ELSE LET p == ScanDesktops(desktops.val, 1, old_id, new_id, UsizeMax, UsizeMax)
         IN  IF p[1] # UsizeMax /\ p[2] # UsizeMax
             THEN DesktopChanged(p[2], p[1])
             ELSE NoEvent

ChangedEvent_Partial(desktops, old_id, new_id) ==
    IF ~desktops.ok THEN NoEvent
    ELSE LET p == ScanDesktops(desktops.val, 1, old_id, new_id, UsizeMax, UsizeMax)
         IN  IF p[1] # UsizeMax \/ p[2] # UsizeMax
             THEN DesktopChanged(p[1], p[2])
             ELSE NoEvent

ChangedEvent(desktops, old_id, new_id) ==
    IF ~desktops.ok THEN NoEvent
    ELSE LET p == ScanDesktops(desktops.val, 1, old_id, new_id, UsizeMax, UsizeMax)
         IN  IF p[1] # UsizeMax /\ p[2] # UsizeMax
             THEN DesktopChanged(p[1], p[2])
             ELSE NoEvent

\* The status a callback returns; out is what became of its send.
CallbackResult_Propagate(out) == IF out \in {"full", "closed"} THEN -1 ELSE HRESULT_ok

CallbackResult(out) == HRESULT_ok

\* VirtualDesktopChangeListener::allocate (co_class): fresh storage that owns
\* the send-end, with __refcnt 0.
Allocate == [mem |-> "live", refcnt |-> 0, drops |-> 0, frees |-> 0]

\* IUnknown::add_ref of the co_class object (also ComRc::clone).
AddRef(s) == [s EXCEPT !.refcnt = @ + 1]

\* VirtualDesktopChangeListener::create: allocate, then add_ref.
Create == AddRef(Allocate)

\* IUnknown::release of the co_class object (also the drop of a ComRc) and
\* the drop of a Box of the sink; each gives the sink afterwards and the
\* fault it ran into.  release takes one off the count (taking one off zero
\* is the panic "Underflow of reference count") and at zero reclaims the
\* object with Box::from_raw(self), dropped on the spot.  The drop of the
\* Box runs Drop for VirtualDesktopChangeListener, which calls release, then
\* drops the send-end and gives the storage back, whatever the count is.
RECURSIVE Release(_), BoxDrop(_)
Release(s) ==
    IF s.refcnt = 0 THEN <<s, "release_at_zero">>
    ELSE LET d == [s EXCEPT !.refcnt = @ - 1]
         IN  IF d.refcnt = 0 THEN BoxDrop(d) ELSE <<d, "none">>

BoxDrop_Leak(s) == <<s, "none">>

BoxDrop(s) ==
    LET r == Release([s EXCEPT !.drops = @ + 1])
    IN  <<[r[1] EXCEPT !.mem = "freed", !.frees = @ + 1], r[2]>>

\* The storage of the sink of handle h has been given back.
Released(h) == listener[h].mem = "freed"

\* The OS has a pointer to the sink of handle h: the sink is registered with
\* the service, or the OS holds a reference of its own.
OsHasPointer(h) ==
    \/ handle[h].st = "registered"
    \/ handle[h].cookie \in svc
    \/ osRefs[h] > 0

\* The OS calls into the sink of handle h on its thread t, through the
\* vtable pointer it reads from the sink's storage.
Enter(t, h) ==
    /\ fault = "none"
    /\ calls < MaxCalls
    /\ thr[t].pc = "idle"
    /\ OsHasPointer(h)
    /\ calls' = calls + 1
    /\ IF Released(h)
       THEN fault' = "stale_callback" /\ thr' = thr
       ELSE /\ fault' = fault
            /\ thr' = [thr EXCEPT ![t] =
                           [pc |-> "running", sink |-> h, stamp |-> calls + 1]]
    /\ UNCHANGED <<handle, unregLog, cap, queue, sent, rx, joined, got, last,
                   listener, osRefs, tear, svc, extSender, closedSeen>>

\* The end of every callback: the try_send of its event, if it has one,
\* whose result is discarded, and the return of the status.  res is what
\* the callback resolved.
Return(t, kind, res, ev) ==
    /\ fault = "none"
    /\ thr[t].pc = "running"
    /\ ~(ev # NoEvent /\ Released(thr[t].sink))
    /\ LET msg == [stamp |-> thr[t].stamp, ev |-> ev,
                   over |-> \E u \in Threads :
                                /\ u # t
                                /\ thr[u].pc = "running"
                                /\ thr[u].stamp < thr[t].stamp]
           r == IF ev = NoEvent
                THEN [out |-> "none", queue |-> queue]
                ELSE TrySend(Channel, msg)
       IN  /\ queue' = r.queue
           /\ sent' = IF r.out = "sent" THEN Append(sent, msg) ELSE sent
           /\ last' = [stamp |-> thr[t].stamp, kind |-> kind, res |-> res,
                       ev |-> ev, room |-> HasRoom(Channel), out |-> r.out,
                       hr |-> CallbackResult(r.out)]
    /\ thr' = [thr EXCEPT ![t] = IdleThread]
    /\ UNCHANGED <<handle, unregLog, cap, rx, joined, got, calls, lifeVars>>

\* A callback reaches its try_send after the sink's storage, and the
\* send-end in it, were given back: self.sender is read from released storage.
StaleSend(t) ==
    /\ fault = "none"
    /\ thr[t].pc = "running"
    /\ Released(thr[t].sink)
    /\ fault' = "stale_callback"
    /\ thr' = [thr EXCEPT ![t] = IdleThread]
    /\ UNCHANGED <<handle, unregLog, cap, queue, sent, rx, joined, got, last, calls,
                   listener, osRefs, tear, svc, extSender, closedSeen>>

\* What becomes of a panic that a collaborator raises in the body of a
\* callback: no method catches an unwind, so the panic leaves the method.
Unwind(panicked) == IF panicked THEN "panic_escaped" ELSE "none"

\* A collaborator of the callback that thread t runs (get_id,
\* get_index_by_desktop, get_desktops, get_thumbnail_window) panics.
Panic(t) ==
    /\ fault = "none"
    /\ thr[t].pc = "running"
    /\ fault' = Unwind(TRUE)
    /\ thr' = [thr EXCEPT ![t] = IdleThread]
    /\ UNCHANGED <<handle, unregLog, cap, queue, sent, rx, joined, got, last, calls,
                   listener, osRefs, tear, svc, extSender, closedSeen>>

\* What a callback resolved: the answer of get_index_by_desktop.
LookupRes(lookup) ==
    [ok |-> lookup.ok, old |-> lookup.val, new |-> -1, same |-> FALSE, total |-> 0]

\* What a callback resolved: whether get_desktops answered, the positions of
\* the two identifiers in its list (-1: absent), whether they are equal, and
\* the length of the list.
DesktopsRes(list, ok, old_id, new_id) ==
    IF ok
    THEN [ok |-> TRUE, old |-> IndexOf(list, old_id), new |-> IndexOf(list, new_id),
          same |-> (old_id = new_id), total |-> Len(list)]
    ELSE [ok |-> FALSE, old |-> -1, new |-> -1, same |-> (old_id = new_id),
          total |-> 0]

virtual_desktop_created(t, id, list, ok) ==
    LET lookup == get_index_by_desktop(list, ok, id)
    IN  Return(t, "created", LookupRes(lookup), CreatedEvent(lookup))

virtual_desktop_destroy_begin_Sends(t) ==
    Return(t, "destroy_begin", NoRes, DesktopDestroyed(0))

virtual_desktop_destroy_begin(t) ==
    Return(t, "destroy_begin", NoRes, NoEvent)

virtual_desktop_destroy_failed(t) ==
    Return(t, "destroy_failed", NoRes, NoEvent)

virtual_desktop_destroyed(t, id, list, ok) ==
    LET lookup == get_index_by_desktop(list, ok, id)
    IN  Return(t, "destroyed", LookupRes(lookup), DestroyedEvent(lookup))

view_virtual_desktop_changed(t, hwnd) ==
    Return(t, "view_changed", NoRes, WindowEvent(hwnd))

current_virtual_desktop_changed(t, old_id, new_id, list, ok) ==
    Return(t, "current_changed", DesktopsRes(list, ok, old_id, new_id),
           ChangedEvent(get_desktops(list, ok), old_id, new_id))

\* ------------------------------------- register and drop, step by step
\* The first fault of two steps run one after the other.
FirstFault(f, g) == IF f # "none" THEN f ELSE g

\* register, line 47: the sink is created with the send-end.
create(h) ==
    /\ fault = "none"
    /\ handle[h].st = "unused"
    /\ \A g \in Handles : g < h => handle[g].st # "unused"
    /\ handle' = [handle EXCEPT ![h].st = "created"]
    /\ listener' = [listener EXCEPT ![h] = Create]
    /\ UNCHANGED <<unregLog, cap, queue, sent, rx, joined, got, thr, last, calls,
                   osRefs, tear, svc, fault, extSender, closedSeen>>

\* register, lines 48-54: ptr wraps the sink's address (ComRc::from_raw adds
\* no reference) and ptr.clone(), one more reference, goes into the service's
\* register call.
register_call(h) ==
    /\ fault = "none"
    /\ handle[h].st = "created"
    /\ handle' = [handle EXCEPT ![h].st = "calling"]
    /\ listener' = [listener EXCEPT ![h] = AddRef(listener[h])]
    /\ UNCHANGED <<unregLog, cap, queue, sent, rx, joined, got, thr, last, calls,
                   osRefs, tear, svc, fault, extSender, closedSeen>>

\* The OS takes a reference of its own on a sink it has a pointer to.
OS_AddRef(h) ==
    /\ fault = "none"
    /\ handle[h].st = "calling" \/ OsHasPointer(h)
    /\ osRefs[h] < MaxOsRefs
    /\ osRefs' = [osRefs EXCEPT ![h] = @ + 1]
    /\ IF Released(h)
       THEN fault' = "stale_refcount" /\ listener' = listener
       ELSE fault' = fault /\ listener' = [listener EXCEPT ![h] = AddRef(listener[h])]
    /\ UNCHANGED <<handle, unregLog, cap, queue, sent, rx, joined, got, thr, last,
                   calls, tear, svc, extSender, closedSeen>>

\* The OS drops a reference of its own.
OS_Release(h) ==
    /\ fault = "none"
    /\ osRefs[h] > 0
    /\ osRefs' = [osRefs EXCEPT ![h] = @ - 1]
    /\ IF Released(h)
       THEN fault' = "stale_refcount" /\ listener' = listener
       ELSE LET r == Release(listener[h])
            IN  fault' = r[2] /\ listener' = [listener EXCEPT ![h] = r[1]]
    /\ UNCHANGED <<handle, unregLog, cap, queue, sent, rx, joined, got, thr, last,
                   calls, tear, svc, extSender, closedSeen>>

\* register, line 54: the service's register call answers with a status and,
\* on success, a cookie under which the sink is now registered.  A call
\* that fails leaves no reference of the OS behind.
register_answer(h, res, cookie) ==
    /\ fault = "none"
    /\ handle[h].st = "calling"
    /\ cookie \notin Issued
    /\ cookie \notin svc
    /\ Failed(res) => osRefs[h] = 0
    /\ handle' = [handle EXCEPT ![h].st = "answered",
                                ![h].cookie = IF Failed(res) THEN 0 ELSE cookie,
                                ![h].status = res]
    /\ svc' = IF Failed(res) THEN svc ELSE svc \cup {cookie}
    /\ UNCHANGED <<unregLog, cap, queue, sent, rx, joined, got, thr, last, calls,
                   listener, osRefs, tear, fault, extSender, closedSeen>>

\* register, lines 55-76: the result is built and the locals go out of
\* scope, ptr first (a release).  On failure the sink's Box and the
\* receive-end are dropped too; on success they move into the handle.
register_return(h) ==
    /\ fault = "none"
    /\ handle[h].st = "answered"
    /\ LET r == RegisterResult(handle[h].status, handle[h].cookie)
           p == Release(listener[h])
           b == IF r.st = "failed" /\ p[2] = "none" THEN BoxDrop(p[1]) ELSE p
       IN  /\ handle' = [handle EXCEPT ![h] =
                   [st |-> r.st, cookie |-> r.cookie, err |-> r.err,
                    status |-> IF Failed(handle[h].status) THEN handle[h].status ELSE 0,
                    how |-> "none"]]
           /\ listener' = [listener EXCEPT ![h] = b[1]]
           /\ fault' = FirstFault(p[2], b[2])
    /\ UNCHANGED <<unregLog, cap, queue, sent, rx, joined, got, thr, last, calls,
                   osRefs, tear, svc, extSender, closedSeen>>

\* The cookies of a sequence of unregister calls.
Range(s) == {s[k] : k \in DOMAIN s}

\* One step of the drop of handle h, which went out of scope or is dropped
\* by an unwind (how): the next of DropOrder.  The service's unregister call
\* may return while a callback of the sink is still running.
drop_step(h, how) ==
    /\ fault = "none"
    /\ handle[h].st \in {"registered", "dropping"}
    /\ handle[h].st = "dropping" => how = handle[h].how
    /\ tear[h] < Len(DropOrder)
    /\ LET item == DropOrder[tear[h] + 1]
           b == IF item = "listener" THEN BoxDrop(listener[h]) ELSE <<listener[h], "none">>
           u == IF item = "unregister" THEN Drop_Unregister(handle[h]) ELSE <<>>
       IN  /\ unregLog' = unregLog \o u
           /\ svc' = svc \ Range(u)
           /\ listener' = [listener EXCEPT ![h] = b[1]]
           /\ fault' = b[2]
    /\ tear' = [tear EXCEPT ![h] = @ + 1]
    /\ handle' = [handle EXCEPT
                     ![h].st = IF tear[h] + 1 = Len(DropOrder) THEN "dropped" ELSE "dropping",
                     ![h].how = how]
    /\ UNCHANGED <<cap, queue, sent, rx, joined, got, thr, last, calls, osRefs,
                   extSender, closedSeen>>

\* The caller of register keeps a clone of the send-end it passes in.
KeepSender ==
    /\ fault = "none"
    /\ \E h \in Handles : handle[h].st = "unused"
    /\ ~extSender
    /\ extSender' = TRUE
    /\ UNCHANGED <<handle, unregLog, cap, queue, sent, rx, joined, got, thr, last, calls,
                   listener, osRefs, tear, svc, fault, closedSeen>>

\* The caller drops its clone of the send-end.
DropSender ==
    /\ fault = "none"
    /\ extSender
    /\ \A h \in Handles : handle[h].st # "unused"
    /\ extSender' = FALSE
    /\ UNCHANGED <<handle, unregLog, cap, queue, sent, rx, joined, got, thr, last, calls,
                   listener, osRefs, tear, svc, fault, closedSeen>>

\* Receiver::recv on a clone of an empty channel without a send-end: the
\* closed-channel answer.
RecvClosed(c) ==
    /\ rx[c]
    /\ ~closedSeen[c]
    /\ queue = <<>>
    /\ Senders = 0
    /\ closedSeen' = [closedSeen EXCEPT ![c] = TRUE]
    /\ UNCHANGED <<handle, unregLog, cap, queue, sent, rx, joined, got, thr, last, calls,
                   listener, osRefs, tear, svc, fault, extSender>>

\* ---------------------------------------------------------- specification
Next ==
    \/ \E res \in HResults, cookie \in Cookies : Register(res, cookie)
    \/ \E h \in Handles, how \in {"scope", "unwind"} : DropHandle(h, how)
    \/ \E c \in Consumers, h \in Handles : get_receiver(c, h)
    \/ \E c \in Consumers : Recv(c)
    \/ \E c \in Consumers : DropReceiver(c)
    \/ \E t \in Threads, h \in Handles : Enter(t, h)
    \/ \E t \in Threads, id \in DesktopIDs, list \in DesktopLists, ok \in BOOLEAN :
          virtual_desktop_created(t, id, list, ok)
    \/ \E t \in Threads : virtual_desktop_destroy_begin(t)
    \/ \E t \in Threads : virtual_desktop_destroy_failed(t)
    \/ \E t \in Threads, id \in DesktopIDs, list \in DesktopLists, ok \in BOOLEAN :
          virtual_desktop_destroyed(t, id, list, ok)
    \/ \E t \in Threads, hwnd \in HWNDs : view_virtual_desktop_changed(t, hwnd)
    \/ \E t \in Threads, old_id \in DesktopIDs, new_id \in DesktopIDs,
          list \in DesktopLists, ok \in BOOLEAN :
          current_virtual_desktop_changed(t, old_id, new_id, list, ok)

Spec == Init /\ [][Next]_vars

\* Register and the drop of the handle, statement by statement, and the
\* references the OS takes and drops meanwhile.
Lifecycle ==
    \/ \E h \in Handles : create(h)
    \/ \E h \in Handles : register_call(h)
    \/ \E h \in Handles, res \in HResults, cookie \in Cookies :
           register_answer(h, res, cookie)
    \/ \E h \in Handles : register_return(h)
    \/ \E h \in Handles, how \in {"scope", "unwind"} : drop_step(h, how)
    \/ \E h \in Handles : OS_AddRef(h)
    \/ \E h \in Handles : OS_Release(h)

\* The OS calls into a sink for as long as it has a pointer to it.
Callbacks ==
    \/ \E t \in Threads, h \in Handles : Enter(t, h)
    \/ \E t \in Threads : StaleSend(t)
    \/ \E t \in Threads : Panic(t)
    \/ \E t \in Threads, id \in DesktopIDs, list \in DesktopLists, ok \in BOOLEAN :
           virtual_desktop_created(t, id, list, ok)
    \/ \E t \in Threads : virtual_desktop_destroy_begin(t)
    \/ \E t \in Threads : virtual_desktop_destroy_failed(t)
    \/ \E t \in Threads, id \in DesktopIDs, list \in DesktopLists, ok \in BOOLEAN :
           virtual_desktop_destroyed(t, id, list, ok)
    \/ \E t \in Threads, hwnd \in HWNDs : view_virtual_desktop_changed(t, hwnd)
    \/ \E t \in Threads, old_id \in DesktopIDs, new_id \in DesktopIDs,
           list \in DesktopLists, ok \in BOOLEAN :
           current_virtual_desktop_changed(t, old_id, new_id, list, ok)

\* The step-level view: the core and the OS.  Every step of theirs needs
\* fault = "none": the run is followed up to its first fault.
NextLife == Lifecycle \/ Callbacks

Life == Init /\ [][NextLife]_vars

\* What the consumers do.
Consume ==
    \/ \E c \in Consumers, h \in Handles : get_receiver(c, h)
    \/ \E c \in Consumers : Recv(c)
    \/ \E c \in Consumers : RecvClosed(c)
    \/ \E c \in Consumers : DropReceiver(c)

\* The step-level view with the consumers and the caller's clone of the
\* send-end; the OS reports window changes only.  The consumers outlive a
\* fault of the thread that registered.
NextClose ==
    \/ Lifecycle
    \/ KeepSender
    \/ DropSender
    \/ \E t \in Threads, h \in Handles : Enter(t, h)
    \/ \E t \in Threads : StaleSend(t)
    \/ \E t \in Threads, hwnd \in HWNDs : view_virtual_desktop_changed(t, hwnd)
    \/ Consume

\* The consumers keep calling recv on the clones they hold.
Close ==
    /\ Init
    /\ [][NextClose]_vars
    /\ \A c \in Consumers : WF_vars(Recv(c)) /\ WF_vars(RecvClosed(c))

\* ================================================================ claims
\* The occurrences of x in the sequence s.
RECURSIVE Count(_, _)
Count(x, s) ==
    IF s = <<>> THEN 0
    ELSE (IF Head(s) = x THEN 1 ELSE 0) + Count(x, Tail(s))

\* The number of unregister calls the service received for a cookie.
UnregisterCalls(cookie) == Count(cookie, unregLog)

Dropped == {h \in Handles : handle[h].st = "dropped"}

\* C1: a handle that register returned and that has been destroyed (by
\* leaving scope or by an unwind) has caused exactly one unregister call,
\* with the cookie the service's register call returned; a handle still
\* alive has caused none; the service receives no other unregister call.
C1_UnregisterExactlyOnce ==
    /\ \A h \in Handles :
          /\ handle[h].st = "dropped" => UnregisterCalls(handle[h].cookie) = 1
          /\ handle[h].st = "registered" => UnregisterCalls(handle[h].cookie) = 0
    /\ Len(unregLog) = Cardinality(Dropped)

C1_Witness ==
    \E h \in Handles :
        /\ handle[h].st = "dropped"
        /\ handle[h].how = "unwind"
        /\ handle[h].cookie = 2
        /\ unregLog = <<2>>

RECURSIVE GotCount(_, _)
GotCount(m, n) ==
    IF n = 0 THEN 0 ELSE Count(m, got[n]) + GotCount(m, n - 1)

IsDesktopEvent(m) == m.ev.type \in {"DesktopCreated", "DesktopDestroyed"}

\* C3, as claimed: an event of a desktop-created or desktop-destroyed
\* callback appears on every receive-end clone: a consumer that has held its
\* clone since before the event was enqueued has received it, or can still
\* receive it.
C3_EveryCloneObserves ==
    \A c \in Consumers :
        rx[c] =>
            \A k \in (joined[c] + 1)..Len(sent) :
                IsDesktopEvent(sent[k]) =>
                    \/ Count(sent[k], got[c]) = 1
                    \/ Count(sent[k], queue) = 1

\* C3, amended: the callback places exactly one event on the one channel all
\* clones share, and an enqueued event is either still in the channel or
\* has been received by exactly one clone.
C3_OneCloneObserves ==
    /\ \A i, j \in DOMAIN sent : i # j => sent[i].stamp # sent[j].stamp
    /\ \A k \in DOMAIN sent :
          Count(sent[k], queue) + GotCount(sent[k], MaxConsumers) = 1

C3_Witness ==
    \E c, d \in Consumers :
        /\ c # d
        /\ rx[c] /\ rx[d]
        /\ joined[c] = 0 /\ joined[d] = 0
        /\ Len(got[c]) = 1 /\ IsDesktopEvent(got[c][1])
        /\ got[d] = <<>>
        /\ queue = <<>>

\* The place of message m in the enqueue order.
SentPos(m) == CHOOSE k \in DOMAIN sent : sent[k] = m

\* C4, as claimed: events are received in the order in which the OS invoked
\* their callbacks.
C4_InvocationOrder ==
    \A c \in Consumers :
        \A i, j \in DOMAIN got[c] :
            i < j => got[c][i].stamp < got[c][j].stamp

\* C4, amended: events are received in the order in which their callbacks
\* performed try_send; that order differs from the order of invocation
\* only for callbacks that overlapped (the one enqueued first ran while a
\* callback invoked before it had not yet returned).
C4_SendOrder ==
    /\ \A c \in Consumers :
          /\ \A i, j \in DOMAIN got[c] :
                i < j => SentPos(got[c][i]) < SentPos(got[c][j])
          /\ \A i \in DOMAIN got[c], j \in DOMAIN queue :
                SentPos(got[c][i]) < SentPos(queue[j])
    /\ \A i, j \in DOMAIN queue : i < j => SentPos(queue[i]) < SentPos(queue[j])
    /\ \A i, j \in DOMAIN sent :
          (i < j /\ sent[i].stamp > sent[j].stamp) => sent[i].over

C4_Witness ==
    \E c \in Consumers :
        /\ Len(got[c]) = 2
        /\ got[c][1].stamp = 2
        /\ got[c][2].stamp = 1

\* Both identifiers of a current_virtual_desktop_changed resolve.
BothResolve(res) == res.ok /\ res.old # -1 /\ res.new # -1

\* C5: current_virtual_desktop_changed, with the channel open and not full,
\* emits an event if and only if the enumeration succeeds and both
\* identifiers, distinct or not, are in the enumerated list.
C5_EventIffBothResolve ==
    (last.kind = "current_changed" /\ last.room) =>
        (last.out = "sent" <=> BothResolve(last.res))

\* C6: the event of current_virtual_desktop_changed is DesktopChanged(i, j)
\* with i the position of old and j the position of new in the list that
\* get_desktops returned, and that is the event enqueued.
C6_ChangedPositions ==
    (last.kind = "current_changed" /\ last.ev # NoEvent) =>
        /\ BothResolve(last.res)
        /\ last.ev = DesktopChanged(last.res.old, last.res.new)
        /\ last.out = "sent" =>
              \E k \in DOMAIN sent :
                  /\ sent[k].stamp = last.stamp
                  /\ sent[k].ev = DesktopChanged(last.res.old, last.res.new)

C6_Witness ==
    /\ last.kind = "current_changed"
    /\ last.res.old = 0
    /\ last.res.new = 1
    /\ last.out = "sent"
    /\ \E k \in DOMAIN sent : sent[k].ev = DesktopChanged(0, 1)

\* The event the spec gives a created or destroyed callback for index k.
DesktopEventOf(kind, k) ==
    IF kind = "created" THEN DesktopCreated(k) ELSE DesktopDestroyed(k)

\* C7: a created or destroyed callback whose lookup resolved to k, with the
\* channel open and not full, has enqueued exactly one event, DesktopCreated(k)
\* or DesktopDestroyed(k).
C7_ResolvedEnqueuesOne ==
    (last.kind \in {"created", "destroyed"} /\ last.res.ok /\ last.room) =>
        /\ last.out = "sent"
        /\ Cardinality({k \in DOMAIN sent : sent[k].stamp = last.stamp}) = 1
        /\ \A k \in DOMAIN sent :
              sent[k].stamp = last.stamp =>
                  sent[k].ev = DesktopEventOf(last.kind, last.res.old)

C7_Witness ==
    /\ last.kind = "destroyed"
    /\ last.res.ok
    /\ last.res.old = 1
    /\ last.room
    /\ \E k \in DOMAIN sent : sent[k].stamp = last.stamp /\ sent[k].ev = DesktopDestroyed(1)

\* The step is the return of a callback.
CallbackReturns == last'.stamp # last.stamp

\* C8: a created or destroyed callback whose lookup fails enqueues nothing,
\* leaves the channel as it was and returns the success status.
C8_UnresolvedEnqueuesNone ==
    [][(CallbackReturns /\ last'.kind \in {"created", "destroyed"} /\ ~last'.res.ok) =>
          /\ queue' = queue
          /\ sent' = sent
          /\ last'.out = "none"
          /\ last'.hr = HRESULT_ok]_vars

C8_Witness ==
    /\ last.kind = "created"
    /\ ~last.res.ok
    /\ last.room
    /\ last.out = "none"
    /\ last.hr = HRESULT_ok

SomeMessage == [stamp |-> 0, ev |-> WindowChanged(1), over |-> FALSE]

C11_LateCallbackSafe ==
    /\ fault # "stale_callback"
    /\ last.stamp > 0 => last.hr = HRESULT_ok

\* Every handle that register returned has been dropped, to the last step.
AllDropped == \A h \in Handles : handle[h].st = "dropped"

C13_UnregisterBeforeRelease ==
    \A h \in Handles :
        /\ handle[h].cookie \in svc => listener[h].mem = "live"
        /\ handle[h].st = "registered" => (listener[h].mem = "live" /\ HoldsReceiver(h))
        /\ (handle[h].st \in {"dropping", "dropped"}
              /\ (listener[h].mem = "freed" \/ ~HoldsReceiver(h))) =>
                 /\ UnregisterCalls(handle[h].cookie) = 1
                 /\ handle[h].cookie \notin svc

C13_Witness ==
    \E h \in Handles, t \in Threads :
        /\ handle[h].st = "dropping"
        /\ handle[h].how = "unwind"
        /\ unregLog = <<handle[h].cookie>>
        /\ listener[h].mem = "live"
        /\ thr[t].pc = "running"

\* C14, as claimed: the count is at least one when the sink is handed to the
\* service's register call, and the core takes a reference off the count
\* only in a run of the sink's destructor, never in register.
C14_RefcountProtocol ==
    [][\A h \in Handles :
          /\ (handle[h].st # "calling" /\ handle'[h].st = "calling") =>
                 listener[h].refcnt >= 1
          /\ (listener'[h].refcnt < listener[h].refcnt /\ osRefs'[h] = osRefs[h]) =>
                 listener'[h].drops > listener[h].drops]_vars

\* C15, as claimed: the count is 1 right after creation, and storage that
\* was given back was given back at count zero.
C15_ReclaimedAtZero ==
    \A h \in Handles :
        /\ handle[h].st = "created" => listener[h].refcnt = 1
        /\ listener[h].mem = "freed" => listener[h].refcnt = 0

\* C16, as claimed: after register returned the error the count is zero and
\* the sink was destroyed and its storage given back exactly once, with no
\* release beyond the references taken.
C16_FailureReleasesOnce ==
    \A h \in Handles :
        handle[h].st = "failed" =>
            /\ listener[h].refcnt = 0
            /\ listener[h].mem = "freed"
            /\ listener[h].drops = 1
            /\ listener[h].frees = 1
            /\ fault # "release_at_zero"

\* The transitions of a registration: Unregistered ("unused"), Registering
\* ("created", "calling", "answered"), Registered, Unregistering
\* ("dropping"), Unregistered for good ("dropped", or "failed").
Transitions ==
    {<<"unused", "created">>, <<"created", "calling">>, <<"calling", "answered">>,
     <<"answered", "registered">>, <<"answered", "failed">>,
     <<"registered", "dropping">>, <<"dropping", "dropped">>}

\* C17: a registration moves along the listed transitions only, and the
\* cookie of a handle is registered with the service exactly as long as the
\* handle's drop has not called unregister.
C17_StateMachine ==
    /\ [][\A h \in Handles :
             handle'[h].st # handle[h].st =>
                 <<handle[h].st, handle'[h].st>> \in Transitions]_vars
    /\ [](\A h \in Handles :
             /\ handle[h].st = "registered" => handle[h].cookie \in svc
             /\ handle[h].st = "dropping" =>
                    (handle[h].cookie \in svc <=> UnregisterCalls(handle[h].cookie) = 0)
             /\ handle[h].st \in {"dropped", "failed"} => handle[h].cookie \notin svc
             /\ UnregisterCalls(handle[h].cookie) <= 1)

C17_Witness ==
    \E h \in Handles :
        /\ handle[h].st = "dropped"
        /\ handle[h].cookie = 2
        /\ svc = {}
        /\ unregLog = <<2>>
        /\ tear[h] = Len(DropOrder)

\* C18, as claimed: a panic of a collaborator inside a callback is caught in
\* the callback and never leaves it.
C18_PanicCaught == fault # "panic_escaped"

\* C19: the return of virtual_desktop_destroy_begin or
\* virtual_desktop_destroy_failed leaves the channel, the handle and its
\* cookie, the service and the sink with its count as they were; the
\* callback looked nothing up, had no event and returned the success status.
C19_NoOps ==
    [][(CallbackReturns /\ last'.kind \in {"destroy_begin", "destroy_failed"}) =>
          /\ queue' = queue
          /\ sent' = sent
          /\ handle' = handle
          /\ unregLog' = unregLog
          /\ svc' = svc
          /\ listener' = listener
          /\ osRefs' = osRefs
          /\ last'.res = NoRes
          /\ last'.ev = NoEvent
          /\ last'.out = "none"
          /\ last'.hr = HRESULT_ok]_vars

C19_Witness ==
    /\ last.kind = "destroy_begin"
    /\ last.hr = HRESULT_ok
    /\ last.stamp = 2
    /\ Len(sent) = 1
    /\ \E h \in Handles : handle[h].st = "dropping" /\ listener[h].refcnt = 2

\* C20: every DesktopChanged(o, n) that was enqueued has o # n; the event of
\* a current_virtual_desktop_changed has both positions below the length of
\* the list that get_desktops returned, so neither is the "not found" value.
C20_DistinctPositions ==
    /\ \A k \in DOMAIN sent :
          sent[k].ev.type = "DesktopChanged" =>
              /\ sent[k].ev.fst # sent[k].ev.snd
              /\ sent[k].ev.fst # UsizeMax
              /\ sent[k].ev.snd # UsizeMax
    /\ (last.kind = "current_changed" /\ last.ev # NoEvent) =>
              /\ last.ev.type = "DesktopChanged"
              /\ last.ev.fst # last.ev.snd
              /\ last.ev.fst >= 0 /\ last.ev.fst < last.res.total
              /\ last.ev.snd >= 0 /\ last.ev.snd < last.res.total

C20_Witness ==
    /\ last.kind = "current_changed"
    /\ last.res.total = 2
    /\ last.out = "sent"
    /\ \E k \in DOMAIN sent : sent[k].ev = DesktopChanged(1, 0)

====
